---- MODULE Spec2Model ----
(***************************************************************************)
(* NotebookAPIHandler of kernel_gateway/services/notebooks/handlers.py:    *)
(* one tornado request handler instance per HTTP request.  The handler     *)
(* leases a kernel from the kernel pool, registers on_recv as the kernel's *)
(* message listener, executes two pieces of code, waits for the idle       *)
(* status of the second one and writes the aggregated output.              *)
(*                                                                         *)
(* The coroutine _handle_request runs in three atomic segments, separated  *)
(* by its two yields (line 77 and line 98); on_recv runs on the same       *)
(* IOLoop, between segments.                                               *)
(***************************************************************************)
EXTENDS Integers, Sequences, FiniteSets, TLC

VARIABLES
    active,            \* the requests (handler instances) of this run
    method,            \* self.request.method
    if_none_match,     \* self.request.headers: If-None-Match, as finish() read it
    connected,         \* the client connection is still open
    pc,                \* position of the coroutine _handle_request
    mpc,               \* position of the method coroutine get/post/put/delete
    exc,               \* exception that escaped _handle_request
    execute_result,    \* self.execute_result
    stream_messages,   \* self.stream_messages: the list object it is bound to
    lists,             \* the list objects: their items
    error_message,     \* self.error_message
    parent_header,     \* self.parent_header
    execution_future,  \* self.execution_future
    response_future,   \* self.response_future
    response,          \* status, Content-Type, write buffer, finished flag
    acq,               \* the future returned by kernel_pool.acquire()
    free,              \* kernel pool: the kernels not leased
    listener,          \* kernel pool: on_recv callback registered per kernel
    executed,          \* per kernel: the msg_ids kernel_client.execute returned
    nextId,            \* next msg_id a kernel client hands out
    calls,             \* per request: calls made on the pool and the client
    resolved,          \* per request: results passed to execution_future.set_result
    log                \* messages delivered to on_recv, in order

vars == <<active, method, if_none_match, connected, pc, mpc, exc, execute_result,
          stream_messages, lists, error_message, parent_header, execution_future,
          response_future, response, acq, free, listener, executed, nextId,
          calls, resolved, log>>

-----------------------------------------------------------------------------
(* Bounds *)

\* messages delivered to on_recv in one run
MaxMsgs == 3
\* kernels in the pool
NumKernels == 1
\* messages delivered to on_recv in one run of two concurrent requests
MaxMsgsConc == 2

Requests == {1, 2}
\* the pool of a run with one request
Kernels == 1..NumKernels
\* the pool of a run with two concurrent requests: one kernel more
KernelsConc == 1..(NumKernels + 1)

\* the list object of the class attribute stream_messages (line 20); the list
\* request h creates at line 65 is list object h
ClassList == 0

-----------------------------------------------------------------------------
(* Python values *)

None == [type |-> "NoneType"]
Str(s) == [type |-> "str", s |-> s]
Dict(d) == [type |-> "dict", d |-> d]
\* an attribute that was never assigned: reading it raises AttributeError
Unset == [type |-> "unset"]
MsgId(i) == [type |-> "msg_id", id |-> i]

\* bool(v)
Truthy(v) ==
    CASE v.type = "NoneType" -> FALSE
      [] v.type = "str" -> v.s # ""
      [] v.type = "dict" -> v.d # {}
      [] OTHER -> TRUE

-----------------------------------------------------------------------------
(* Configuration and inputs *)

\* self.sources: HTTP method -> source code of the annotated cell
sources == [GET |-> "print(1+1)"]

\* the methods whose handler calls _handle_request (lines 109-127)
Methods == {"GET", "POST", "PUT", "DELETE"}

Texts == {"a", "b"}
Datas == {Dict({}), Dict({<<"text/plain", "1">>})}
Errors == {[ename |-> "NameError", evalue |-> "x"],
           [ename |-> "ValueError", evalue |-> "y"]}

Msg(id, t, c) ==
    [parent_header |-> [msg_id |-> id], header |-> [msg_type |-> t], content |-> c]

\* the messages a kernel may emit for the execution whose msg_id is id
MessagesOf(id) ==
    {Msg(id, "status", [execution_state |-> s]) : s \in {"idle", "busy"}}
    \cup {Msg(id, "execute_input", [code |-> "code"])}
    \cup {Msg(id, "execute_result", [data |-> d]) : d \in Datas}
    \cup {Msg(id, "stream", [text |-> t]) : t \in Texts}
    \cup {Msg(id, "error", e) : e \in Errors}

-----------------------------------------------------------------------------
(* Helpers *)

RECURSIVE JoinReversed(_)
\* faulty variant: the chunks are joined last first
JoinReversed(chunks) ==
    IF chunks = <<>> THEN "" ELSE JoinReversed(Tail(chunks)) \o Head(chunks)

RECURSIVE Join(_)
\* ''.join(chunks)
Join(chunks) ==
    IF chunks = <<>> THEN "" ELSE Head(chunks) \o Join(Tail(chunks))

\* 'Error {}: {} \n'.format(ename, evalue)
FormatError(ename, evalue) == "Error " \o ename \o ": " \o evalue \o " \n"

Call(op, k, code) == [op |-> op, kernel |-> k, code |-> code]

NewResponse ==
    [status |-> 200, content_type |-> "text/html", body |-> "", finished |-> FALSE]

\* the If-None-Match header of a request: absent, "*", or an entity tag;
\* Unread until finish() looks at the request's headers
Unread == [kind |-> "unread", of |-> ""]
NoHeader == [kind |-> "absent", of |-> ""]
AnyTag == [kind |-> "*", of |-> ""]
\* compute_etag: the quoted sha1 digest of the write buffer
ETag(body) == [kind |-> "etag", of |-> body]

IfNoneMatch == {NoHeader, AnyTag, ETag("a")}

\* check_etag_header: the If-None-Match header names the response's ETag
CheckEtag(inm, body) == inm = AnyTag \/ inm = ETag(body)

\* finish() looks at If-None-Match only for a response of status 200 to a
\* GET or HEAD request
ReadsHeader(m, resp) == resp.status = 200 /\ m \in {"GET", "HEAD"}

\* the header finish() is given: one of IfNoneMatch where it reads the
\* header, Unread where it does not
HeaderRead(m, resp, inm) ==
    IF ReadsHeader(m, resp) THEN inm \in IfNoneMatch ELSE inm = Unread

\* self.finish() (lines 71, 107, 130): a response of status 200 to a GET or
\* HEAD request whose If-None-Match header matches the ETag of the write
\* buffer is sent as 304 with no body and no Content-Type; any other
\* response is flushed as written
finish(m, inm, resp) ==
    IF ReadsHeader(m, resp) /\ CheckEtag(inm, resp.body)
    THEN [status |-> 304, content_type |-> "", body |-> "", finished |-> TRUE]
    ELSE [resp EXCEPT !.finished = TRUE]


PendingFuture == [type |-> "Future", done |-> FALSE, result |-> None]
DoneFuture(r) == [type |-> "Future", done |-> TRUE, result |-> r]

NoAcquire == [state |-> "none", kernel |-> 0]

-----------------------------------------------------------------------------
(* Initial state: no request dispatched, every kernel in the pool.  The     *)
(* class attributes (lines 16-21) give execute_result, stream_messages and  *)
(* error_message their values before _handle_request assigns them;          *)
(* parent_header, execution_future and response_future do not exist yet.    *)

InitOf(reqs, pool) ==
    /\ active = reqs
    /\ method = [h \in Requests |-> "none"]
    /\ if_none_match = [h \in Requests |-> Unread]
    /\ connected = [h \in Requests |-> TRUE]
    /\ pc = [h \in Requests |-> "new"]
    /\ mpc = [h \in Requests |-> "new"]
    /\ exc = [h \in Requests |-> "none"]
    /\ execute_result = [h \in Requests |-> None]
    /\ stream_messages = [h \in Requests |-> ClassList]
    /\ lists = [r \in {ClassList} \cup Requests |-> <<>>]
    /\ error_message = [h \in Requests |-> None]
    /\ parent_header = [h \in Requests |-> Unset]
    /\ execution_future = [h \in Requests |-> Unset]
    /\ response_future = [h \in Requests |-> Unset]
    /\ response = [h \in Requests |-> NewResponse]
    /\ acq = [h \in Requests |-> NoAcquire]
    /\ free = pool
    /\ listener = [k \in KernelsConc |-> 0]
    /\ executed = [k \in KernelsConc |-> <<>>]
    /\ nextId = 1
    /\ calls = [h \in Requests |-> <<>>]
    /\ resolved = [h \in Requests |-> <<>>]
    /\ log = <<>>

Init == InitOf({1}, Kernels)

\* two requests in flight at once
InitConc == InitOf({1, 2}, KernelsConc)

-----------------------------------------------------------------------------
(* _handle_request, first segment, and the method coroutine that called it *)

\* faulty variant: the membership test of line 69 is dropped
MethodSupportedAlways(m) == TRUE

\* line 69: self.request.method in self.sources
MethodSupported(m) == m \in DOMAIN sources

\* faulty variant: the buffer is emptied in place, not bound to a new list
NewListInPlace(h, cur) == cur

\* line 65: self.stream_messages = [] binds the instance attribute to a new
\* list object
NewList(h, cur) == h

\* get/post/put/delete (lines 109-127) call _handle_request, which runs lines
\* 62-77 up to its first yield; then the method coroutine evaluates
\* `yield self.response_future` (line 112).
HandleRequest(h, m) ==
    /\ pc[h] = "new"
    /\ method[h] = "none"
    /\ method' = [method EXCEPT ![h] = m]
    /\ execute_result' = [execute_result EXCEPT ![h] = None]
    /\ stream_messages' = [stream_messages EXCEPT ![h] = NewList(h, @)]
    /\ lists' = [lists EXCEPT ![stream_messages'[h]] = <<>>]
    /\ error_message' = [error_message EXCEPT ![h] = None]
    /\ IF ~MethodSupported(m)
       THEN /\ response' = [response EXCEPT
                                ![h] = finish(m, Unread, [@ EXCEPT !.status = 405])]
            /\ pc' = [pc EXCEPT ![h] = "unsupported"]
            /\ UNCHANGED <<execution_future, response_future, acq, calls>>
       ELSE /\ execution_future' = [execution_future EXCEPT ![h] = PendingFuture]
            /\ response_future' = [response_future EXCEPT ![h] = PendingFuture]
            /\ acq' = [acq EXCEPT ![h] = [state |-> "pending", kernel |-> 0]]
            /\ calls' = [calls EXCEPT ![h] = Append(@, Call("acquire", 0, ""))]
            /\ pc' = [pc EXCEPT ![h] = "acquire"]
            /\ UNCHANGED response
    \* line 112: reading a response_future that was never assigned raises
    \* AttributeError in the method coroutine
    /\ mpc' = [mpc EXCEPT ![h] = IF response_future'[h] = Unset
                                  THEN "raised" ELSE "await_response"]
    /\ UNCHANGED <<active, if_none_match, connected, exc, parent_header, free,
                   listener, executed, nextId, resolved, log>>

\* options (lines 129-130): finish() and nothing else; _handle_request is
\* not called, so no buffer is reset, no future is created, nothing is
\* awaited and the pool is not touched.  The response keeps the default
\* status 200 and its empty body.
Options(h) ==
    /\ pc[h] = "new"
    /\ method[h] = "none"
    /\ method' = [method EXCEPT ![h] = "OPTIONS"]
    /\ response' = [response EXCEPT ![h] = finish("OPTIONS", Unread, @)]
    /\ UNCHANGED <<active, if_none_match, connected, pc, mpc, exc, execute_result,
                   stream_messages, lists, error_message, parent_header,
                   execution_future, response_future, acq, free, listener,
                   executed, nextId, calls, resolved, log>>

-----------------------------------------------------------------------------
(* The kernel pool (kernel_gateway/services/kernels/pool.py is not part of  *)
(* the sources at hand; modelled from the pool contract of the              *)
(* specification, section 6)                                                *)

\* acquire() resolves with a free kernel, which is then leased exclusively
PoolGrant(h, k) ==
    /\ acq[h].state = "pending"
    /\ k \in free
    /\ free' = free \ {k}
    /\ acq' = [acq EXCEPT ![h] = [state |-> "granted", kernel |-> k]]
    /\ UNCHANGED <<active, method, if_none_match, connected, pc, mpc, exc, execute_result,
                   stream_messages, lists, error_message, parent_header,
                   execution_future, response_future, response, listener,
                   executed, nextId, calls, resolved, log>>

\* acquire() fails (PoolExhausted / PoolClosed under configured limits)
PoolFail(h) ==
    /\ acq[h].state = "pending"
    /\ acq' = [acq EXCEPT ![h] = [state |-> "failed", kernel |-> 0]]
    /\ UNCHANGED <<active, method, if_none_match, connected, pc, mpc, exc, execute_result,
                   stream_messages, lists, error_message, parent_header,
                   execution_future, response_future, response, free, listener,
                   executed, nextId, calls, resolved, log>>

\* kernel_pool.on_recv(kernel_id, callback): the callback replaces the
\* kernel's listener
RegisterListener(ls, k, h) == [ls EXCEPT ![k] = h]

\* kernel_pool.release(kernel_id): the kernel goes back to the pool
Release(fr, k) == fr \cup {k}


-----------------------------------------------------------------------------
(* _handle_request, second segment: lines 77-98 *)

\* faulty variant: the msg_id of the first execute is kept as the correlation key
CorrelationKeyFirst(first, second) == first

\* line 97: the correlation key is the msg_id the second execute returned
CorrelationKey(first, second) == second

\* faulty variant: the release and finish are plain statements after the write,
\* skipped when the block raises
FinallyOnlyOnSuccess(e) == e = "none"

\* try/finally (lines 78, 104-107): the finally clause runs whether the try
\* block completed or raised e
FinallyRuns(e) == TRUE

\* faulty variant: the listener is registered after the submissions
CallOrderSubmitFirst(register, submit) == submit \o register

\* lines 80-97: kernel_pool.on_recv is called before the two executes
CallOrder(register, submit) == register \o submit

\* where the try block may raise before the wait: building the request code
\* (lines 85-92), the first execute (line 96), the second execute (line 97)
Faults == {"none", "build", "execute1", "execute2"}

\* format_request(request) of line 92
RequestCode == "REQUEST = request"

AfterAcquire(h, fault, inm) ==
    /\ pc[h] = "acquire"
    /\ acq[h].state \in {"granted", "failed"}
    /\ IF acq[h].state = "failed"
       THEN \* the exception of acquire() is thrown at line 77, outside the try
            /\ fault = "none"
            /\ inm = Unread
            /\ pc' = [pc EXCEPT ![h] = "raised"]
            /\ exc' = [exc EXCEPT ![h] = "acquire"]
            /\ UNCHANGED <<if_none_match, parent_header, response, free, listener,
                           executed, nextId, calls>>
       ELSE LET k == acq[h].kernel
                \* line 83: self.sources[self.request.method]
                e == IF method[h] \in DOMAIN sources THEN fault ELSE "KeyError"
                first == e \in {"execute2", "none"}
                second == e = "none"
                id1 == MsgId(nextId)
                id2 == MsgId(nextId + 1)
                made == CallOrder(
                            <<Call("on_recv", k, "")>>,
                            (IF e \in {"execute1", "execute2", "none"}
                             THEN <<Call("execute", k, RequestCode)>> ELSE <<>>)
                            \o (IF e \in {"execute2", "none"}
                                THEN <<Call("execute", k, sources[method[h]])>>
                                ELSE <<>>))
                        \o (IF e # "none" /\ FinallyRuns(e)
                            THEN <<Call("release", k, "")>> ELSE <<>>)
            IN  /\ listener' = RegisterListener(listener, k, h)
                /\ calls' = [calls EXCEPT ![h] = @ \o made]
                /\ executed' = [executed EXCEPT ![k] =
                       @ \o (IF first THEN <<[id |-> id1, code |-> RequestCode, h |-> h]>>
                             ELSE <<>>)
                         \o (IF second THEN <<[id |-> id2, code |-> sources[method[h]],
                                               h |-> h]>>
                             ELSE <<>>)]
                /\ nextId' = nextId + (IF first THEN 1 ELSE 0) + (IF second THEN 1 ELSE 0)
                /\ parent_header' = IF second
                                    THEN [parent_header EXCEPT ![h] = CorrelationKey(id1, id2)]
                                    ELSE parent_header
                /\ IF e = "none"
                   THEN \* line 98: yield self.execution_future
                        /\ inm = Unread
                        /\ pc' = [pc EXCEPT ![h] = "await"]
                        /\ UNCHANGED <<if_none_match, exc, response, free>>
                   ELSE /\ pc' = [pc EXCEPT ![h] = "raised"]
                        /\ exc' = [exc EXCEPT ![h] = e]
                        /\ IF FinallyRuns(e)
                           THEN /\ free' = Release(free, k)
                                /\ HeaderRead(method[h], response[h], inm)
                                /\ response' = [response EXCEPT ![h] =
                                       finish(method[h], inm, @)]
                                /\ if_none_match' =
                                       [if_none_match EXCEPT ![h] = inm]
                           ELSE /\ inm = Unread
                                /\ UNCHANGED <<if_none_match, free, response>>
    /\ UNCHANGED <<active, method, connected, mpc, execute_result, stream_messages,
                   lists, error_message, execution_future, response_future, acq,
                   resolved, log>>

-----------------------------------------------------------------------------
(* on_recv: lines 28-59 *)

\* faulty variant: the parent_header filter is dropped
KeyMatchesAny(msg, key) == TRUE

\* line 36: msg['parent_header']['msg_id'] == self.parent_header
KeyMatches(msg, key) == msg.parent_header.msg_id = key

\* faulty variant: every status message ends the execution
IsAnyStatus(msg) == msg.header.msg_type = "status"

\* line 38
IsIdle(msg) ==
    /\ msg.header.msg_type = "status"
    /\ msg.content.execution_state = "idle"

\* faulty variant: the execute_result branch is tested before the error branch
TerminalResultResultFirst(er, sm, em) ==
    IF Truthy(er) /\ er # Str("")
    THEN [status |-> 200, content |-> em]
    ELSE IF Truthy(em)
         THEN [status |-> 500, content |-> em]
         ELSE [status |-> 200, content |-> Str(Join(sm))]

\* lines 39-46: the result handed to execution_future.set_result
TerminalResult(er, sm, em) ==
    IF Truthy(em)
    THEN [status |-> 500, content |-> em]
    ELSE IF Truthy(er) /\ er # Str("")
         THEN [status |-> 200, content |-> em]
         ELSE [status |-> 200, content |-> Str(Join(sm))]

\* the kernel k's listener receives msg, a message of an execution made on k
\* faulty variant: a stored result is not replaced
StoreResultOnce(old, new) == IF old = None THEN new ELSE old

\* line 50: self.execute_result = msg['content']['data']
StoreResult(old, new) == new

OnRecv(k, msg) ==
    /\ listener[k] # 0
    /\ \E i \in 1..Len(executed[k]) : msg \in MessagesOf(executed[k][i].id)
    /\ LET h == listener[k]
           entry(r) == [h |-> h, kernel |-> k, msg |-> msg, raised |-> r]
       IN
       IF parent_header[h] = Unset
       THEN \* self.parent_header was never assigned: AttributeError at line 36
            /\ log' = Append(log, entry("AttributeError"))
            /\ UNCHANGED <<execute_result, lists, error_message,
                           execution_future, resolved>>
       ELSE IF ~KeyMatches(msg, parent_header[h])
       THEN /\ log' = Append(log, entry("none"))
            /\ UNCHANGED <<execute_result, lists, error_message,
                           execution_future, resolved>>
       ELSE IF IsIdle(msg)
       THEN LET result == TerminalResult(execute_result[h], lists[stream_messages[h]],
                                         error_message[h])
            IN  /\ resolved' = [resolved EXCEPT ![h] = Append(@, result)]
                /\ IF ~execution_future[h].done
                   THEN /\ execution_future' =
                               [execution_future EXCEPT ![h] = DoneFuture(result)]
                        /\ log' = Append(log, entry("none"))
                   ELSE \* set_result on a future that is already done raises;
                        \* whether the stored result was replaced before the
                        \* error depends on the tornado version
                        /\ \E f \in {execution_future[h], DoneFuture(result)} :
                               execution_future' = [execution_future EXCEPT ![h] = f]
                        /\ log' = Append(log, entry("set_result"))
                /\ UNCHANGED <<execute_result, lists, error_message>>
       ELSE IF msg.header.msg_type = "execute_result"
       THEN /\ execute_result' = [execute_result EXCEPT ![h] =
                                      StoreResult(@, msg.content.data)]
            /\ log' = Append(log, entry("none"))
            /\ UNCHANGED <<lists, error_message, execution_future, resolved>>
       ELSE IF msg.header.msg_type = "stream"
       THEN \* append mutates the list object the attribute is bound to
            /\ lists' = [lists EXCEPT ![stream_messages[h]] =
                             Append(@, msg.content.text)]
            /\ log' = Append(log, entry("none"))
            /\ UNCHANGED <<execute_result, error_message, execution_future, resolved>>
       ELSE IF msg.header.msg_type = "error"
       THEN /\ error_message' = [error_message EXCEPT ![h] =
                   Str(FormatError(msg.content.ename, msg.content.evalue))]
            /\ log' = Append(log, entry("none"))
            /\ UNCHANGED <<execute_result, lists, execution_future, resolved>>
       ELSE /\ log' = Append(log, entry("none"))
            /\ UNCHANGED <<execute_result, lists, error_message,
                           execution_future, resolved>>
    /\ UNCHANGED <<active, method, if_none_match, connected, pc, mpc, exc, stream_messages,
                   parent_header,
                   response_future, response, acq, free, listener, executed,
                   nextId, calls>>

-----------------------------------------------------------------------------
(* _handle_request, third segment: lines 98-107 *)

\* RequestHandler.write(chunk) accepts a string; None raises TypeError
Writable(chunk) == chunk.type = "str"

AfterExecution(h, inm) ==
    /\ pc[h] = "await"
    /\ execution_future[h].done
    /\ LET result == execution_future[h].result
           k == acq[h].kernel
           e == IF Writable(result.content) THEN "none" ELSE "TypeError"
           written == [response[h] EXCEPT
                           !.content_type = "text/plain",
                           !.status = result.status,
                           !.body = IF e = "none" THEN @ \o result.content.s ELSE @]
       IN  /\ pc' = [pc EXCEPT ![h] = IF e = "none" THEN "returned" ELSE "raised"]
           /\ exc' = [exc EXCEPT ![h] = e]
           /\ IF FinallyRuns(e)
              THEN /\ free' = Release(free, k)
                   /\ calls' = [calls EXCEPT ![h] = Append(@, Call("release", k, ""))]
                   /\ HeaderRead(method[h], written, inm)
                   /\ response' = [response EXCEPT ![h] =
                          finish(method[h], inm, written)]
                   /\ if_none_match' = [if_none_match EXCEPT ![h] = inm]
              ELSE /\ inm = Unread
                   /\ response' = [response EXCEPT ![h] = written]
                   /\ UNCHANGED <<if_none_match, free, calls>>
    /\ UNCHANGED <<active, method, connected, mpc, execute_result, stream_messages,
                   lists, error_message, parent_header, execution_future, response_future,
                   acq, listener, executed, nextId, resolved, log>>

-----------------------------------------------------------------------------
(* The client closes the connection while the request is suspended.  The    *)
(* handler does not override on_connection_close: the coroutine is not      *)
(* cancelled.                                                               *)

Disconnect(h) ==
    /\ pc[h] \in {"acquire", "await"}
    /\ connected[h]
    /\ connected' = [connected EXCEPT ![h] = FALSE]
    /\ UNCHANGED <<active, method, if_none_match, pc, mpc, exc, execute_result, stream_messages,
                   lists, error_message, parent_header, execution_future, response_future,
                   response, acq, free, listener, executed, nextId, calls,
                   resolved, log>>

-----------------------------------------------------------------------------

Dispatch ==
    \/ \E h \in active : \E m \in Methods : HandleRequest(h, m)
    \/ \E h \in active : Options(h)
Grant == \E h \in active : \E k \in KernelsConc : PoolGrant(h, k)
Fail == \E h \in active : PoolFail(h)
Resume == \E h \in active : \E f \in Faults : \E inm \in IfNoneMatch \cup {Unread} :
              AfterAcquire(h, f, inm)
\* a kernel emits a message of one of its executions; at most MaxMsgs
\* messages are delivered in one run
Deliver ==
    /\ Len(log) < MaxMsgs
    /\ \E k \in KernelsConc : \E id \in 1..(nextId - 1) :
           \E msg \in MessagesOf(MsgId(id)) : OnRecv(k, msg)

\* the messages delivered while two requests are in flight: one message of
\* each type on_recv acts on, for any execution made so far
MessagesConc(id) ==
    {Msg(id, "status", [execution_state |-> "idle"]),
     Msg(id, "execute_result", [data |-> Dict({<<"text/plain", "1">>})]),
     Msg(id, "stream", [text |-> "a"]),
     Msg(id, "error", [ename |-> "NameError", evalue |-> "x"])}

\* at most MaxMsgsConc messages are delivered in one run of two requests
DeliverConc ==
    /\ Len(log) < MaxMsgsConc
    /\ \E k \in KernelsConc : \E id \in 1..(nextId - 1) :
           \E msg \in MessagesConc(MsgId(id)) : OnRecv(k, msg)
Finish == \E h \in active : \E inm \in IfNoneMatch \cup {Unread} :
              AfterExecution(h, inm)
Close == \E h \in active : Disconnect(h)

Next == Dispatch \/ Grant \/ Fail \/ Resume \/ Deliver \/ Finish \/ Close

Spec == Init /\ [][Next]_vars

\* the requests in flight together carry no If-None-Match header
IfNoneMatchConc == {NoHeader}

ResumeConc == \E h \in active : \E f \in Faults : \E inm \in IfNoneMatchConc \cup {Unread} :
                  AfterAcquire(h, f, inm)
FinishConc == \E h \in active : \E inm \in IfNoneMatchConc \cup {Unread} :
                  AfterExecution(h, inm)

NextConc ==
    Dispatch \/ Grant \/ Fail \/ ResumeConc \/ DeliverConc \/ FinishConc \/ Close

\* two requests in flight at once, over two kernels
SpecConc == InitConc /\ [][NextConc]_vars


\* The IOLoop runs a coroutine whose awaited future is done
FairSpec ==
    /\ Spec
    /\ \A h \in Requests :
           WF_vars(\E f \in Faults : \E inm \in IfNoneMatch \cup {Unread} :
                       AfterAcquire(h, f, inm))
    /\ \A h \in Requests :
           WF_vars(\E inm \in IfNoneMatch \cup {Unread} : AfterExecution(h, inm))

-----------------------------------------------------------------------------
(* Properties *)

\* number of calls of operation op a request made
CountCalls(h, op) == Cardinality({i \in 1..Len(calls[h]) : calls[h][i].op = op})

\* the messages delivered to h's on_recv that bear h's correlation key
Own(h) ==
    SelectSeq(log, LAMBDA e : e.h = h /\ e.msg.parent_header.msg_id = parent_header[h])

\* index of the first idle status in a sequence of log entries; Len + 1 if none
FirstIdle(s) ==
    IF \E i \in 1..Len(s) : IsIdle(s[i].msg)
    THEN CHOOSE i \in 1..Len(s) :
             /\ IsIdle(s[i].msg)
             /\ \A j \in 1..(i - 1) : ~IsIdle(s[j].msg)
    ELSE Len(s) + 1

\* the messages of h's target execution that arrived before its first idle
BeforeIdle(h) == SubSeq(Own(h), 1, FirstIdle(Own(h)) - 1)

\* h's target execution has reported idle
ReachedIdle(h) == FirstIdle(Own(h)) <= Len(Own(h))

OfType(s, t) == SelectSeq(s, LAMBDA e : e.msg.header.msg_type = t)

RECURSIVE ConcatTexts(_)
ConcatTexts(s) ==
    IF s = <<>> THEN "" ELSE Head(s).msg.content.text \o ConcatTexts(Tail(s))

\* C1: a request that acquired a kernel releases that kernel exactly once by
\* the time _handle_request has exited (normally or with an exception), and
\* not before; a request that acquired none never calls release.
C1_ReleaseOncePerAcquire ==
    \A h \in active :
        LET releases == {i \in 1..Len(calls[h]) : calls[h][i].op = "release"}
            exited == pc[h] \in {"returned", "raised", "unsupported"}
        IN  /\ Cardinality(releases) <= 1
            /\ \A i \in releases : /\ acq[h].state = "granted"
                                   /\ calls[h][i].kernel = acq[h].kernel
                                   /\ exited
            /\ (acq[h].state = "granted" /\ exited)
                   => /\ Cardinality(releases) = 1
                      /\ acq[h].kernel \in free

\* C1 witness: the write raised after the client had disconnected during the
\* wait, and the kernel was released
C1_Witness ==
    \E h \in active :
        /\ pc[h] = "raised"
        /\ exc[h] = "TypeError"
        /\ ~connected[h]
        /\ CountCalls(h, "release") = 1

\* C2: execution_future is resolved at most once per request: once an idle
\* status of the target execution has resolved it, no later message leads to
\* another set_result.
C2_ResolvedOnce == \A h \in active : Len(resolved[h]) <= 1

\* C3: when an execute_result of the target execution arrived before idle
\* and no error did, the terminal result is status 200 with the content of
\* the (last) execute_result as its body.
C3_ResultBody ==
    \A h \in active :
        (/\ ReachedIdle(h)
         /\ OfType(BeforeIdle(h), "execute_result") # <<>>
         /\ OfType(BeforeIdle(h), "error") = <<>>)
        => LET rs == OfType(BeforeIdle(h), "execute_result")
           IN  resolved[h][1] =
                   [status |-> 200, content |-> rs[Len(rs)].msg.content.data]

\* C4: when an error message of the target execution arrived before idle,
\* the terminal result is status 500 with the formatted summary of the (last)
\* error as its body, whatever stream or execute_result messages arrived;
\* the response the request then writes has status 500.
C4_ErrorWins ==
    \A h \in active :
        (ReachedIdle(h) /\ OfType(BeforeIdle(h), "error") # <<>>)
        => LET es == OfType(BeforeIdle(h), "error")
               last == es[Len(es)].msg.content
           IN  /\ resolved[h][1] =
                      [status |-> 500,
                       content |-> Str("Error " \o last.ename \o ": "
                                       \o last.evalue \o " \n")]
               /\ pc[h] = "returned" => response[h].status = 500

\* C4 witness: an error, an execute_result and a stream message arrived
\* before idle
C4_Witness ==
    \E h \in active :
        /\ ReachedIdle(h)
        /\ OfType(BeforeIdle(h), "error") # <<>>
        /\ \E i \in 1..Len(BeforeIdle(h)) :
               /\ BeforeIdle(h)[i].msg.header.msg_type = "execute_result"
               /\ BeforeIdle(h)[i].msg.content.data # Dict({})
        /\ resolved[h][1].status = 500

\* C5: when only stream messages M1..Mn (and no execute_result, no error) of
\* the target execution arrived before idle, the terminal result is status
\* 200 with body M1 ... Mn concatenated in arrival order ("" when n = 0), and
\* a request resolved once writes exactly that as text/plain, which the
\* client receives unless the request's If-None-Match header names it: then
\* it receives 304 with no body.
C5_StreamConcat ==
    \A h \in active :
        (/\ ReachedIdle(h)
         /\ OfType(BeforeIdle(h), "execute_result") = <<>>
         /\ OfType(BeforeIdle(h), "error") = <<>>)
        => LET body == ConcatTexts(OfType(BeforeIdle(h), "stream"))
           IN  /\ resolved[h][1] = [status |-> 200, content |-> Str(body)]
               /\ (pc[h] = "returned" /\ Len(resolved[h]) = 1)
                      => response[h] =
                             IF if_none_match[h] \in {AnyTag, ETag(body)}
                             THEN [status |-> 304, content_type |-> "",
                                   body |-> "", finished |-> TRUE]
                             ELSE [status |-> 200, content_type |-> "text/plain",
                                   body |-> body, finished |-> TRUE]

\* C5 witness: two different chunks arrived, then idle
C5_Witness ==
    \E h \in active :
        /\ ReachedIdle(h)
        /\ Len(BeforeIdle(h)) = 2
        /\ resolved[h][1] = [status |-> 200, content |-> Str("ab")]

\* C6: a message delivered to a request's on_recv whose parent msg_id is not
\* the request's parent_header changes none of execute_result,
\* stream_messages, error_message, execution_future, whatever its type and
\* whenever it is delivered.
C6_ForeignKeyIgnored ==
    [][\A h \in Requests :
           (/\ Len(log') = Len(log) + 1
            /\ log'[Len(log')].h = h
            /\ log'[Len(log')].msg.parent_header.msg_id # parent_header[h])
           => /\ execute_result'[h] = execute_result[h]
              /\ stream_messages'[h] = stream_messages[h]
              /\ lists'[stream_messages[h]] = lists[stream_messages[h]]
              /\ error_message'[h] = error_message[h]
              /\ execution_future'[h] = execution_future[h]
              /\ resolved'[h] = resolved[h]]_vars

\* C6 witness: an idle status with a foreign key was delivered to a request
\* that is waiting, and the request is still unresolved
C6_Witness ==
    \E h \in active : \E i \in 1..Len(log) :
        /\ log[i].h = h
        /\ IsIdle(log[i].msg)
        /\ parent_header[h] # Unset
        /\ log[i].msg.parent_header.msg_id # parent_header[h]
        /\ pc[h] = "await"
        /\ ~execution_future[h].done

\* the executions request h submitted, in order
Submissions(h) ==
    LET k == acq[h].kernel
    IN  IF k = 0 THEN <<>> ELSE SelectSeq(executed[k], LAMBDA x : x.h = h)

\* texts of the stream messages of execution id delivered to h, in order
TextsOf(h, id) ==
    LET s == SelectSeq(log, LAMBDA e : /\ e.h = h
                                       /\ e.msg.parent_header.msg_id = id
                                       /\ e.msg.header.msg_type = "stream")
    IN  [i \in 1..Len(s) |-> s[i].msg.content.text]

\* C7: the correlation key is the msg_id of the second submission, the source
\* snippet, made after the request code; what the request accumulated comes
\* from messages of the second submission only and the request is resolved
\* only once an idle status of the second submission was delivered.
C7_SecondSubmissionKey ==
    \A h \in active :
        parent_header[h] # Unset
        => LET subs == Submissions(h)
               target == subs[2]
               got(t) == \E i \in 1..Len(log) :
                             /\ log[i].h = h
                             /\ log[i].msg.parent_header.msg_id = target.id
                             /\ log[i].msg.header.msg_type = t
           IN  /\ Len(subs) = 2
               /\ subs[1].code = RequestCode
               /\ target.code = sources[method[h]]
               /\ parent_header[h] = target.id
               /\ lists[stream_messages[h]] = TextsOf(h, target.id)
               /\ execute_result[h] # None => got("execute_result")
               /\ error_message[h] # None => got("error")
               /\ execution_future[h].done
                      => \E i \in 1..Len(log) :
                             /\ log[i].h = h
                             /\ log[i].msg.parent_header.msg_id = target.id
                             /\ IsIdle(log[i].msg)

\* C7 witness: the idle status and a stream message of the first submission
\* were delivered, the request is still waiting with nothing accumulated
C7_Witness ==
    \E h \in active :
        /\ pc[h] = "await"
        /\ ~execution_future[h].done
        /\ lists[stream_messages[h]] = <<>>
        /\ \E i, j \in 1..Len(log) :
               /\ log[i].msg.parent_header.msg_id = Submissions(h)[1].id
               /\ IsIdle(log[i].msg)
               /\ log[j].msg.parent_header.msg_id = Submissions(h)[1].id
               /\ log[j].msg.header.msg_type = "stream"

\* the request was given to one of the handler's methods
Received(h) == method[h] # "none"

\* no call on the pool or a kernel client was made for the request
Untouched(h) ==
    /\ calls[h] = <<>>
    /\ acq[h] = NoAcquire
    /\ \A k \in KernelsConc : listener[k] # h

\* C8 as stated: every request whose method has no entry in sources is
\* answered 405 and makes no call on the pool or a kernel client.
C8_NoEntryAnswered405 ==
    \A h \in active :
        (Received(h) /\ method[h] \notin DOMAIN sources)
        => (response[h].status = 405 /\ response[h].finished /\ Untouched(h))

\* C8: a GET, POST, PUT or DELETE request whose method has no entry in
\* sources is answered 405 with an empty body, finished, and makes no call on
\* the pool or a kernel client: no acquire, no listener registration, no
\* execute, no release.  An OPTIONS request, which has no entry either, is
\* finished with status 200 and an empty body, also without any such call.
C8_UnsupportedMethod ==
    \A h \in active :
      /\ (Received(h) /\ method[h] = "OPTIONS")
         => /\ response[h] = [NewResponse EXCEPT !.finished = TRUE]
            /\ Untouched(h)
            /\ free = Kernels
      /\ (method[h] \in Methods /\ method[h] \notin DOMAIN sources)
         => /\ pc[h] = "unsupported"
            /\ response[h].status = 405
            /\ response[h].body = ""
            /\ response[h].finished
            /\ Untouched(h)
            /\ free = Kernels

\* C8 witness: a PUT request was answered
C8_Witness ==
    \E h \in active :
        /\ method[h] = "PUT"
        /\ pc[h] = "unsupported"
        /\ response[h].status = 405

\* C9: a request that waits for the resolution of its execution eventually
\* releases its kernel and finishes its response, even if the kernel never
\* reports idle.
C9_BoundedWait ==
    \A h \in Requests :
        (pc[h] = "await")
            ~> (CountCalls(h, "release") = 1 /\ response[h].finished)

\* C10: when acquire() failed, the request is answered with status 503 or 504
\* and finished, and no release is issued.
C10_AcquireFailureAnswered ==
    \A h \in active :
        (acq[h].state = "failed" /\ pc[h] = "raised")
        => /\ response[h].finished
           /\ response[h].status \in {503, 504}
           /\ CountCalls(h, "release") = 0


\* the request holds a lease: acquire() returned a kernel, not yet released
Live(h) == acq[h].state = "granted" /\ CountCalls(h, "release") = 0

\* C11: while a request's lease is live no second request holds a lease on
\* the same kernel and, once registered, the request is the kernel's
\* listener; once the request has released the lease it is no kernel's
\* listener any more, so its on_recv is not invoked for a later lease.
C11_ExclusiveUntilUnregistered ==
    \A h \in active :
        /\ Live(h) => \A h2 \in active \ {h} :
                          ~(Live(h2) /\ acq[h2].kernel = acq[h].kernel)
        /\ (Live(h) /\ pc[h] = "await") => listener[acq[h].kernel] = h
        /\ CountCalls(h, "release") = 1 => \A k \in KernelsConc : listener[k] # h


\* an idle status of h's target execution was delivered to h's on_recv
IdleDelivered(h) ==
    \E i \in 1..Len(log) :
        /\ log[i].h = h
        /\ log[i].msg.parent_header.msg_id = parent_header[h]
        /\ log[i].msg.header.msg_type = "status"
        /\ log[i].msg.content.execution_state = "idle"

\* C12: a request that waits for its execution has written nothing: status,
\* Content-Type and body are untouched and the response is not finished,
\* whatever stream, execute_result or error messages arrived; the response
\* of a request that submitted its target execution is touched only after
\* the idle status of that execution was delivered to on_recv.
C12_AllOrNothing ==
    \A h \in active :
        /\ pc[h] = "await" => response[h] = NewResponse
        /\ (parent_header[h] # Unset /\ response[h] # NewResponse)
               => IdleDelivered(h)

\* C12 witness: a stream and an error message of the target execution were
\* delivered and the waiting request has written nothing
C12_Witness ==
    \E h \in active :
        /\ pc[h] = "await"
        /\ OfType(Own(h), "stream") # <<>>
        /\ OfType(Own(h), "error") # <<>>
        /\ response[h] = NewResponse

\* C13: parent_header, once assigned, is never assigned again; it is assigned
\* in the segment of _handle_request that ends at the wait, so a waiting
\* request has it; and every message the request's on_recv handles finds it
\* assigned: on_recv never reads a parent_header that was not set.
C13_KeySetOnce ==
    [][\A h \in Requests :
           /\ parent_header[h] # Unset => parent_header'[h] = parent_header[h]
           /\ parent_header'[h] # parent_header[h]
                  => (pc[h] = "acquire" /\ pc'[h] = "await")
           /\ pc'[h] = "await" => parent_header'[h] # Unset
           /\ (/\ Len(log') = Len(log) + 1
               /\ log'[Len(log')].h = h)
              => /\ parent_header[h] # Unset
                 /\ log'[Len(log')].raised # "AttributeError"]_vars

\* the operations a request called on the pool and the client, in order
Ops(h) == [i \in 1..Len(calls[h]) |-> calls[h][i].op]

Rank(op) ==
    CASE op = "acquire" -> 1
      [] op = "on_recv" -> 2
      [] op = "execute" -> 3
      [] op = "release" -> 4

\* C14: a request calls acquire, then registers its listener on the leased
\* kernel, then submits the request code, then the source snippet, and
\* releases last; a request that waits has made exactly the first four calls,
\* and a request that did not fail releases only after its execution_future
\* was resolved.
C14_StepOrder ==
    \A h \in active :
        LET ops == Ops(h)
            at(op) == {i \in 1..Len(ops) : ops[i] = op}
        IN  /\ \A i, j \in 1..Len(ops) : i < j => Rank(ops[i]) <= Rank(ops[j])
            /\ Cardinality(at("acquire")) <= 1
            /\ Cardinality(at("on_recv")) <= 1
            /\ Cardinality(at("execute")) <= 2
            /\ Cardinality(at("release")) <= 1
            /\ at("execute") # {} => at("on_recv") # {}
            /\ at("on_recv") # {} => acq[h].state = "granted"
            /\ \A i \in 1..Len(ops) :
                   ops[i] # "acquire" => calls[h][i].kernel = acq[h].kernel
            /\ \A i \in at("execute") :
                   calls[h][i].code = IF i - 1 \in at("execute")
                                      THEN sources[method[h]] ELSE RequestCode
            /\ pc[h] = "await"
                   => ops = <<"acquire", "on_recv", "execute", "execute">>
            /\ (at("release") # {} /\ exc[h] = "none")
                   => /\ Len(resolved[h]) >= 1
                      /\ execution_future[h].done
                      /\ ops = <<"acquire", "on_recv", "execute", "execute", "release">>

\* C14 witness: a request went through all the steps
C14_Witness ==
    \E h \in active :
        /\ pc[h] = "returned"
        /\ Ops(h) = <<"acquire", "on_recv", "execute", "execute", "release">>
        /\ calls[h][4].code = "print(1+1)"

\* C15: a message bearing the request's correlation key that is neither an
\* execute_result, a stream, an error nor an idle status changes none of
\* execute_result, stream_messages, error_message, does not resolve
\* execution_future, and on_recv raises nothing.
C15_OtherMessagesIgnored ==
    [][\A h \in Requests :
           (/\ Len(log') = Len(log) + 1
            /\ log'[Len(log')].h = h
            /\ log'[Len(log')].msg.parent_header.msg_id = parent_header[h]
            /\ log'[Len(log')].msg.header.msg_type
                   \notin {"execute_result", "stream", "error"}
            /\ ~(/\ log'[Len(log')].msg.header.msg_type = "status"
                 /\ log'[Len(log')].msg.content.execution_state = "idle"))
           => /\ execute_result'[h] = execute_result[h]
              /\ stream_messages'[h] = stream_messages[h]
              /\ lists'[stream_messages[h]] = lists[stream_messages[h]]
              /\ error_message'[h] = error_message[h]
              /\ execution_future'[h] = execution_future[h]
              /\ resolved'[h] = resolved[h]
              /\ log'[Len(log')].raised = "none"]_vars

\* C15 witness: a busy status and an execute_input of the target execution
\* were delivered; the request still waits, unresolved, with empty buffers
C15_Witness ==
    \E h \in active :
        /\ pc[h] = "await"
        /\ \E i \in 1..Len(Own(h)) :
               /\ Own(h)[i].msg.header.msg_type = "status"
               /\ Own(h)[i].msg.content.execution_state = "busy"
        /\ OfType(Own(h), "execute_input") # <<>>
        /\ ~execution_future[h].done
        /\ lists[stream_messages[h]] = <<>>
        /\ execute_result[h] = None
        /\ error_message[h] = None


\* the aggregation state of a request
Aggregation(h) ==
    [execute_result |-> execute_result[h],
     stream_messages |-> lists[stream_messages[h]],
     error_message |-> error_message[h],
     execution_future |-> execution_future[h],
     resolved |-> resolved[h]]

AggregationNext(h) ==
    [execute_result |-> execute_result'[h],
     stream_messages |-> lists'[stream_messages'[h]],
     error_message |-> error_message'[h],
     execution_future |-> execution_future'[h],
     resolved |-> resolved'[h]]

\* C16: a message delivered to one request's on_recv changes nothing of any
\* other request's execute_result, stream_messages, error_message or
\* terminal result; dispatching a request leaves the buffers of the others
\* alone and the dispatched request starts with empty buffers of its own.
C16_OwnedAggregation ==
    [][\A h \in Requests :
           /\ (Len(log') = Len(log) + 1 /\ log'[Len(log')].h # h)
                  => AggregationNext(h) = Aggregation(h)
           /\ (pc[h] = "new" /\ pc'[h] # "new")
                  => /\ execute_result'[h] = None
                     /\ lists'[stream_messages'[h]] = <<>>
                     /\ error_message'[h] = None
                     /\ resolved'[h] = <<>>
                     /\ \A h2 \in Requests \ {h} :
                            AggregationNext(h2) = Aggregation(h2)
                     /\ \A h2 \in Requests \ {h} :
                            pc[h2] # "new" => stream_messages'[h] # stream_messages[h2]]_vars

\* C16 witness: two requests on different kernels; the first message of the
\* run resolved one of them, the second is a stream message delivered to the
\* other: the terminal result and the empty buffer of the resolved request
\* are as they were, the text is in the buffer of the other
C16_Witness ==
    \E h, h2 \in active :
        /\ h # h2
        /\ pc[h] = "await" /\ pc[h2] = "await"
        /\ acq[h].kernel # acq[h2].kernel
        /\ Len(log) = 2
        /\ log[1].h = h2 /\ IsIdle(log[1].msg)
        /\ log[2].h = h /\ log[2].msg.header.msg_type = "stream"
        /\ resolved[h2] = <<[status |-> 200, content |-> Str("")]>>
        /\ lists[stream_messages[h2]] = <<>>
        /\ lists[stream_messages[h]] = <<"a">>
        /\ resolved[h] = <<>>

\* C17: error_message keeps the summary of the first error message of the
\* target execution: a later error message does not change it.
C17_FirstErrorKept ==
    \A h \in active :
        LET es == OfType(Own(h), "error")
        IN  es # <<>>
            => error_message[h] =
                   Str("Error " \o es[1].msg.content.ename \o ": "
                       \o es[1].msg.content.evalue \o " \n")

\* C18: execute_result holds the payload of the most recently delivered
\* execute_result message of the target execution (None before the first),
\* so that is the value stored when the idle status is processed.
C18_LastResultWins ==
    \A h \in active :
        parent_header[h] # Unset
        => LET rs == OfType(Own(h), "execute_result")
           IN  execute_result[h] =
                   IF rs = <<>> THEN None ELSE rs[Len(rs)].msg.content.data

\* C18 witness: two different payloads arrived, then idle; the second is kept
C18_Witness ==
    \E h \in active :
        LET rs == OfType(BeforeIdle(h), "execute_result")
        IN  /\ ReachedIdle(h)
            /\ Len(rs) = 2
            /\ rs[1].msg.content.data = Dict({<<"text/plain", "1">>})
            /\ execute_result[h] = Dict({})

\* C19: once _handle_request has returned, response_future is eventually
\* resolved, so the method coroutine that awaits it completes.
C19_MethodCompletes ==
    \A h \in Requests :
        (pc[h] = "returned")
            ~> (response_future[h] # Unset /\ response_future[h].done)

\* C20: when the method coroutine awaits response_future, the future exists:
\* the coroutine never raises on reading it, the 405 path included.
C20_ResponseFutureExists ==
    \A h \in active :
        mpc[h] # "new" => (response_future[h] # Unset /\ mpc[h] # "raised")

=============================================================================
